---- MODULE Spec2Model ----
(***************************************************************************)
(* The WPS process handlers of raven:                                      *)
(*   RegionalisationProcess._handler      (wps_regionalisation.py)         *)
(*   GraphFcstUncertaintyProcess._handler (wps_graph_forecast_uncertainty) *)
(* A job is one invocation of a handler by the service framework.  Its     *)
(* trace is the sequence of calls the handler has made so far into the     *)
(* library, the logger, the response and the file system.                  *)
(***************************************************************************)
EXTENDS Integers, Sequences, FiniteSets, TLC

VARIABLES job, files, served

vars == <<job, files, served>>

(***************************************************************************)
(* Bounds of the model.                                                    *)
(***************************************************************************)
\* most occurrences of the 'ts' input in a request
MaxTs == 2
\* most occurrences of the 'nc_spec' input in a request
MaxNcSpec == 2
\* most invocations the service answers in one run
MaxInvocations == 2

(***************************************************************************)
(* Python values.                                                          *)
(***************************************************************************)
None == "None"

\* dict.update / keyword merging: the entries of b override those of a
Update(a, b) ==
    [k \in DOMAIN a \cup DOMAIN b |-> IF k \in DOMAIN b THEN b[k] ELSE a[k]]

\* dict.pop(k): the dictionary without the key k
Pop(d, k) == [x \in DOMAIN d \ {k} |-> d[x]]

\* dict.pop(k, default): the value removed, or the default
PopValue(d, k, default) == IF k \in DOMAIN d THEN d[k] ELSE default

\* A JSON text is [ok, members]: whether it parses, and the members of the
\* object it denotes, in textual order, each <<key, value>>.
JsonText(members) == [ok |-> TRUE, members |-> members]

InvalidJson == [ok |-> FALSE, members |-> <<>>]

\* json.loads of an object: a dict; of a repeated key the last value is kept
json_loads(text) ==
    LET m == text.members
        keys == {m[i][1] : i \in DOMAIN m}
        last(k) == CHOOSE i \in DOMAIN m :
                      /\ m[i][1] = k
                      /\ \A j \in DOMAIN m : m[j][1] = k => j <= i
    IN [k \in keys |-> m[last(k)][2]]

\* Path(dir) / name
PathJoin(dir, name) == [dir |-> dir, name |-> name]

\* str(path): the directory, a separator, and the file name (stem, suffix)
PathStr(p) == p.dir \o <<"/">> \o p.name

\* str.endswith
EndsWith(s, suffix) == Len(s) > 0 /\ s[Len(s)] = suffix

\* traceback.format_exc() while exc is being handled: the header, the frame
\* of the failed call, and the exception's type and whole message
format_exc(exc) ==
    "Traceback (most recent call last):\n  File \"wps_regionalisation.py\", in "
        \o exc.origin \o "\n" \o exc.type \o ": " \o exc.msg \o "\n"

RECURSIVE Repeat(_, _)
Repeat(text, n) == IF n = 0 THEN "" ELSE text \o Repeat(text, n - 1)

\* the limit ProcessError puts on a message unless max_length is given
DefaultMaxLength == 300

\* the characters ProcessError lets through unless allowed_chars is given
DefaultAllowedChars == "ProcessError.allowed_chars"

\* what a failing library routine says: a line, or a text longer than
\* DefaultMaxLength
LibraryMessages ==
    {"library failure", Repeat("no donor catchment; ", 20)}

\* an exception raised by a library routine, with its message
LibraryErrorWith(origin, msg) ==
    [type |-> "Exception", origin |-> origin, msg |-> msg]

\* an exception raised by a library routine
LibraryError(origin) == LibraryErrorWith(origin, "library failure")

\* the TypeError Python raises for f(ts=ts, **{"ts": ...})
DuplicateKeyword(origin) ==
    [type |-> "TypeError", origin |-> origin,
     msg |-> "got multiple values for keyword argument"]

JSONDecodeError ==
    [type |-> "JSONDecodeError", origin |-> "json.loads", msg |-> "Expecting value"]

\* characters ProcessError lets through: string.printable
string_printable == "string.printable"

\* ProcessError(msg, max_length=..., allowed_chars=...) raised `from cause`
ProcessError(msg, max_length, allowed_chars, cause) ==
    [type |-> "ProcessError", origin |-> "_handler", msg |-> msg,
     max_length |-> max_length, allowed_chars |-> allowed_chars,
     cause |-> cause]

\* no exception
NoExc == [type |-> "None", origin |-> "None", msg |-> "None"]

\* no figure
NoFigure == [of |-> "None", closed |-> FALSE]

(***************************************************************************)
(* A job: the framework's request, response and workdir, the handler's     *)
(* locals and its position.                                                *)
(***************************************************************************)
Call(op, args, kwargs) == [op |-> op, args |-> args, kwargs |-> kwargs]

NoResult == [kind |-> "none", exc |-> NoExc]

Returned == [kind |-> "returned", exc |-> NoExc]

Raised(exc) == [kind |-> "raised", exc |-> exc]

\* response.outputs before the handler assigns any file
NoOutputs(names) == [o \in names |-> <<>>]

IdleJob ==
    [proc |-> "none", pc |-> "idle", request |-> <<>>, inputs |-> <<>>,
     workdir |-> <<>>, outputs |-> <<>>, trace |-> <<>>, result |-> NoResult,
     ts |-> None, model_name |-> None, method |-> None, ndonors |-> None,
     min_NSE |-> None, properties |-> None, kwds |-> None, nash |-> None,
     params |-> None, props |-> None, ungauged_props |-> None,
     exc |-> NoExc, qsim |-> None, ensemble |-> None,
     sim_fn |-> None, fcst_var |-> None, qobs_fn |-> None, qobs_var |-> None,
     fig |-> NoFigure]

\* the job as the framework hands it to the handler
NewJob(proc, pc, request, workdir, outputs) ==
    [IdleJob EXCEPT !.proc = proc, !.pc = pc, !.request = request,
                    !.inputs = request, !.workdir = workdir,
                    !.outputs = NoOutputs(outputs)]

\* the handler raises exc: the invocation is over
Raise(j, exc) == [j EXCEPT !.pc = "done", !.result = Raised(exc)]

Called(j, call) == [j EXCEPT !.trace = Append(@, call)]

\* response.update_status(message, percent)
update_status(j, message, percent) ==
    Called(j, Call("update_status", <<message, percent>>, <<>>))

Active(j) == j.pc # "idle"

\* the working directories the framework hands out
WorkDirs == {<<"/wd1">>, <<"/wd2">>}

\* the directories no job works in
FreeDirs == WorkDirs \ {job[w].workdir : w \in {v \in DOMAIN job : Active(job[v])}}

\* a file written by slot w at path p
File(p, w) == [path |-> PathStr(p), dir |-> p.dir, by |-> w]

(***************************************************************************)
(* RegionalisationProcess: the requests the framework can deliver.  The    *)
(* inputs declared with a default (method, ndonors, min_NSE) are always    *)
(* present; nc_spec and the model inputs (latitude, area) may be absent.   *)
(***************************************************************************)
SeqsUpTo(S, n) == UNION {[1..k -> S] : k \in 0..n}

TsFiles == {[i \in 1..n |-> <<"ts", i>>] : n \in 1..MaxTs}

ModelNames == {"GR4JCN", "HMETS"}

Methods == {"SP_IDW", "MLR"}

Donors == {5, 2}

MinNSEs == {"0.6", "0.7"}

PropertiesTexts ==
    { InvalidJson,
      JsonText(<< <<"area", "4250.6">> >>),
      JsonText(<< <<"area", "4250.6">>, <<"latitude", "54.4">> >>),
      JsonText(<< <<"area", "1.0">>, <<"area", "4250.6">> >>) }

NcSpecTexts ==
    { JsonText(<< <<"tas", "K">>, <<"latitude", "0.0">> >>),
      JsonText(<< <<"tas", "degC">> >>),
      JsonText(<< <<"ts", "other.nc">> >>) }

ModelInputs ==
    { <<>>, [latitude |-> <<"54.4">>, area |-> <<"4250.6">>],
      [latitude |-> <<"54.4", "60.0">>] }

RegionalisationRequests ==
    { Update(Update([ts |-> ts, model_name |-> <<mn>>, method |-> <<me>>,
                     ndonors |-> <<nd>>, min_NSE |-> <<ns>>,
                     properties |-> <<pr>>],
                    IF nc = <<>> THEN <<>> ELSE [nc_spec |-> nc]),
             mi) :
        ts \in TsFiles, mn \in ModelNames, me \in Methods, nd \in Donors,
        ns \in MinNSEs, pr \in PropertiesTexts,
        nc \in SeqsUpTo(NcSpecTexts, MaxNcSpec), mi \in ModelInputs }

\* outputs = [wio.hydrograph, wio.ensemble]
RegionalisationOutputs == {"hydrograph", "ensemble"}

(***************************************************************************)
(* RegionalisationProcess._handler                                         *)
(***************************************************************************)
\* the inputs _handler pops from request.inputs before it builds kwds
PoppedInputs ==
    {"ts", "model_name", "method", "ndonors", "min_NSE", "properties", "nc_spec"}

\* kwds kept at module level instead: it still holds the keys of an earlier
\* invocation
SharedKwds == IF served = 0 THEN <<>> ELSE [tas |-> "K"]

\* kwds = {}
EmptyKwds == <<>>

\* for spec in nc_spec: kwds.update(json.loads(spec.data))
RECURSIVE UpdateFromSpecs(_, _)
UpdateFromSpecs(kwds, specs) ==
    IF specs = <<>> THEN kwds
    ELSE UpdateFromSpecs(Update(kwds, json_loads(Head(specs))), Tail(specs))

\* the keys of nc_spec are kept over the inputs of the same name
UpdateFromInputs_under(kwds, inputs) ==
    Update([key \in DOMAIN inputs |-> inputs[key][1]], kwds)

\* for key, val in request.inputs.items(): kwds[key] = request.inputs[key][0].data
UpdateFromInputs(kwds, inputs) ==
    Update(kwds, [key \in DOMAIN inputs |-> inputs[key][1]])

\* request.inputs after the seven pops
RemainingInputs(inputs) == [k \in DOMAIN inputs \ PoppedInputs |-> inputs[k]]

\* only the first 'ts' file is passed on
NamedKwargs_first_ts(j) ==
    [size |-> j.ndonors, min_NSE |-> j.min_NSE, ts |-> <<Head(j.ts)>>]

\* the keyword arguments named in the call of regionalize
NamedKwargs(j) == [size |-> j.ndonors, min_NSE |-> j.min_NSE, ts |-> j.ts]

\* regionalize(method, model_name, nash, params, props, ungauged_props,
\*             size=ndonors, min_NSE=min_NSE, ts=ts, **kwds)
RegionalizeCall(j) ==
    Call("regionalize",
         <<j.method, j.model_name, j.nash, j.params, j.props, j.ungauged_props>>,
         Update(NamedKwargs(j), j.kwds))

\* nc_qsim = Path(self.workdir) / "qsim.nc"
\* qsim.nc is written to a directory all invocations share
nc_qsim_shared(j) == PathJoin(<<"/tmp">>, <<"qsim", ".nc">>)

nc_qsim(j) == PathJoin(j.workdir, <<"qsim", ".nc">>)

\* the ensemble is written over qsim.nc
nc_ensemble_as_qsim(j) == PathJoin(j.workdir, <<"qsim", ".nc">>)

\* nc_ensemble = Path(self.workdir) / "ensemble.nc"
nc_ensemble(j) == PathJoin(j.workdir, <<"ensemble", ".nc">>)

\* response.outputs[name].file = value
SetOutput(j, name, value) ==
    [Called(j, Call("outputs.file", <<name, value>>, <<>>))
        EXCEPT !.outputs[name] = value]

\* the framework calls _handler(request, response) with self.workdir set
InvokeRegionalisation(w) ==
    /\ ~Active(job[w])
    /\ served < MaxInvocations
    /\ \E request \in RegionalisationRequests, workdir \in FreeDirs :
          job' = [job EXCEPT ![w] =
                    NewJob("regionalisation", "read_inputs", request, workdir,
                           RegionalisationOutputs)]
    /\ UNCHANGED <<files, served>>

\* lines 169-186: the inputs are popped, the JSON decoded, kwds built
ReadInputs(w) ==
    LET j == job[w]
        text == j.inputs["properties"][1]
        specs == PopValue(j.inputs, "nc_spec", <<>>)
        popped == [j EXCEPT !.ts = j.inputs["ts"],
                            !.model_name = j.inputs["model_name"][1],
                            !.method = j.inputs["method"][1],
                            !.ndonors = j.inputs["ndonors"][1],
                            !.min_NSE = j.inputs["min_NSE"][1],
                            !.properties = text,
                            !.inputs = [k \in DOMAIN j.inputs \ (PoppedInputs \ {"nc_spec"})
                                          |-> j.inputs[k]]]
        rest == RemainingInputs(j.inputs)
    IN /\ j.pc = "read_inputs"
       /\ job' = [job EXCEPT ![w] =
             IF ~text.ok
             THEN Raise(popped, JSONDecodeError)
             ELSE update_status(
                    [popped EXCEPT !.properties = json_loads(text),
                                   !.inputs = rest,
                                   !.kwds = UpdateFromInputs(
                                               UpdateFromSpecs(EmptyKwds, specs), rest),
                                   !.pc = "read_gauged_params"],
                    "Inputs are read", 1)]
       /\ UNCHANGED <<files, served>>

\* what the library does with a call: it returns, or it raises
Outcomes == {"returns", "raises"}

\* lines 188-189: nash, params = read_gauged_params(model_name)
ReadGaugedParams(w) ==
    LET j == job[w]
        called == Called(j, Call("read_gauged_params", <<j.model_name>>, <<>>))
    IN /\ j.pc = "read_gauged_params"
       /\ \E outcome \in Outcomes :
            job' = [job EXCEPT ![w] =
               IF outcome = "raises"
               THEN Raise(called, LibraryError("read_gauged_params"))
               ELSE update_status(
                      [called EXCEPT !.nash = <<"nash", j.model_name>>,
                                     !.params = <<"params", j.model_name>>,
                                     !.pc = "read_gauged_properties"],
                      "Gauged params are read", 2)]
       /\ UNCHANGED <<files, served>>

\* lines 191-193: props = read_gauged_properties(properties.keys())
ReadGaugedProperties(w) ==
    LET j == job[w]
        keys == DOMAIN j.properties
        called == Called(j, Call("read_gauged_properties", <<keys>>, <<>>))
    IN /\ j.pc = "read_gauged_properties"
       /\ \E outcome \in Outcomes :
            job' = [job EXCEPT ![w] =
               IF outcome = "raises"
               THEN Raise(called, LibraryError("read_gauged_properties"))
               ELSE update_status(
                      [called EXCEPT !.props = <<"props", keys>>,
                                     !.ungauged_props =
                                        [key \in DOMAIN j.properties |-> j.properties[key]],
                                     !.pc = "regionalize"],
                      "Gauged properties are read", 3)]
       /\ UNCHANGED <<files, served>>

\* the status 99 is reported before regionalize is called
Regionalize_status_first(w) ==
    LET j == job[w]
        called == Called(update_status(j, "Computed regionalization", 99),
                         RegionalizeCall(j))
    IN /\ j.pc = "regionalize"
       /\ \E outcome \in Outcomes, msg \in LibraryMessages :
            job' = [job EXCEPT ![w] =
               IF DOMAIN j.kwds \cap DOMAIN NamedKwargs(j) # {}
               THEN [j EXCEPT !.exc = DuplicateKeyword("regionalize"),
                              !.pc = "except"]
               ELSE IF outcome = "raises"
               THEN [called EXCEPT !.exc = LibraryErrorWith("regionalize", msg),
                                   !.pc = "except"]
               ELSE [called EXCEPT !.qsim = <<"qsim", j.method>>,
                                   !.ensemble = <<"ensemble", j.method>>,
                                   !.pc = "write_qsim"]]
       /\ UNCHANGED <<files, served>>

\* lines 195-207 and 217: the call of regionalize inside the try block.  A key
\* of kwds that repeats a named keyword makes the call itself a TypeError.
Regionalize(w) ==
    LET j == job[w]
        called == Called(j, RegionalizeCall(j))
    IN /\ j.pc = "regionalize"
       /\ \E outcome \in Outcomes, msg \in LibraryMessages :
            job' = [job EXCEPT ![w] =
               IF DOMAIN j.kwds \cap DOMAIN NamedKwargs(j) # {}
               THEN [j EXCEPT !.exc = DuplicateKeyword("regionalize"),
                              !.pc = "except"]
               ELSE IF outcome = "raises"
               THEN [called EXCEPT !.exc = LibraryErrorWith("regionalize", msg),
                                   !.pc = "except"]
               ELSE update_status(
                      [called EXCEPT !.qsim = <<"qsim", j.method>>,
                                     !.ensemble = <<"ensemble", j.method>>,
                                     !.pc = "write_qsim"],
                      "Computed regionalization", 99)]
       /\ UNCHANGED <<files, served>>

\* the exception is logged and swallowed: the handler goes on to write
ExceptRegionalize_swallow(w) ==
    /\ job[w].pc = "except"
    /\ job' = [job EXCEPT ![w] =
          [Called(job[w], Call("LOGGER.exception", <<job[w].exc>>, <<>>))
              EXCEPT !.pc = "write_qsim"]]
    /\ UNCHANGED <<files, served>>

\* ProcessError is raised with its default limits
ExceptRegionalize_default_limit(w) ==
    /\ job[w].pc = "except"
    /\ job' = [job EXCEPT ![w] =
          Raise(Called(job[w], Call("LOGGER.exception", <<job[w].exc>>, <<>>)),
                ProcessError(format_exc(job[w].exc), DefaultMaxLength,
                             DefaultAllowedChars, job[w].exc))]
    /\ UNCHANGED <<files, served>>

\* the exception is logged and regionalize tried again
ExceptRegionalize_retry(w) ==
    /\ job[w].pc = "except"
    /\ job' = [job EXCEPT ![w] =
          [Called(job[w], Call("LOGGER.exception", <<job[w].exc>>, <<>>))
              EXCEPT !.pc = "regionalize", !.exc = NoExc]]
    /\ UNCHANGED <<files, served>>

\* lines 208-215: except Exception as exc
ExceptRegionalize(w) ==
    LET j == job[w]
        err_msg == format_exc(j.exc)
    IN /\ j.pc = "except"
       /\ job' = [job EXCEPT ![w] =
             Raise(Called(j, Call("LOGGER.exception", <<j.exc>>, <<>>)),
                   ProcessError(err_msg, Len(err_msg), string_printable, j.exc))]
       /\ UNCHANGED <<files, served>>

\* lines 220-222: qsim.to_netcdf(nc_qsim); the hydrograph output is set
WriteQsim(w) ==
    LET j == job[w]
        called == Called(j, Call("to_netcdf", <<j.qsim, nc_qsim(j)>>, <<>>))
    IN /\ j.pc = "write_qsim"
       /\ \E outcome \in Outcomes :
            IF outcome = "raises"
            THEN /\ job' = [job EXCEPT ![w] = Raise(called, LibraryError("to_netcdf"))]
                 /\ UNCHANGED files
                 /\ UNCHANGED served
            ELSE /\ job' = [job EXCEPT ![w] =
                       [SetOutput(called, "hydrograph", PathStr(nc_qsim(j)))
                          EXCEPT !.pc = "write_ensemble"]]
                 /\ files' = files \cup {File(nc_qsim(j), w)}
                 /\ UNCHANGED served

\* lines 225-229: ensemble.to_netcdf(nc_ensemble); the ensemble output is
\* set and the response returned
WriteEnsemble(w) ==
    LET j == job[w]
        called == Called(j, Call("to_netcdf", <<j.ensemble, nc_ensemble(j)>>, <<>>))
    IN /\ j.pc = "write_ensemble"
       /\ \E outcome \in Outcomes :
            IF outcome = "raises"
            THEN /\ job' = [job EXCEPT ![w] = Raise(called, LibraryError("to_netcdf"))]
                 /\ UNCHANGED files
                 /\ UNCHANGED served
            ELSE /\ job' = [job EXCEPT ![w] =
                       [SetOutput(called, "ensemble", PathStr(nc_ensemble(j)))
                          EXCEPT !.pc = "done", !.result = Returned]]
                 /\ files' = files \cup {File(nc_ensemble(j), w)}
                 /\ UNCHANGED served

RegionalisationStep(w) ==
    \/ ReadInputs(w)
    \/ ReadGaugedParams(w)
    \/ ReadGaugedProperties(w)
    \/ Regionalize(w)
    \/ ExceptRegionalize(w)
    \/ WriteQsim(w)
    \/ WriteEnsemble(w)

(***************************************************************************)
(* GraphFcstUncertaintyProcess: the requests the framework can deliver.    *)
(* fcst_var and qobs_var are declared with a default, so they are always   *)
(* present; qobs is optional and has none.                                 *)
(***************************************************************************)
FcstVars == {"q_sim", "flow"}

QobsVars == {"q_obs", "obs"}

QobsFiles == {<<>>, <<"qobs.nc">>}

GraphRequests ==
    { Update([fcst |-> <<"fcst.nc">>, fcst_var |-> <<fv>>, qobs_var |-> <<qv>>],
             IF qo = <<>> THEN <<>> ELSE [qobs |-> qo]) :
        fv \in FcstVars, qv \in QobsVars, qo \in QobsFiles }

GraphOutputs == {"graph_forecasts"}

(***************************************************************************)
(* GraphFcstUncertaintyProcess._handler                                    *)
(***************************************************************************)
\* hindcast chosen by the presence of qobs_var
IsHindcast_by_var(j) == "qobs_var" \in DOMAIN j.inputs

\* if 'qobs' in request.inputs
IsHindcast(j) == "qobs" \in DOMAIN j.inputs

\* fig = hindcast(sim_fn, fcst_var, qobs_fn, qobs_var)
HindcastCall(j) ==
    Call("hindcast",
         <<j.inputs["fcst"][1], j.inputs["fcst_var"][1],
           j.inputs["qobs"][1], j.inputs["qobs_var"][1]>>, <<>>)

\* fig = forecast(sim_fn, fcst_var)
ForecastCall(j) ==
    Call("forecast", <<j.inputs["fcst"][1], j.inputs["fcst_var"][1]>>, <<>>)

\* the figure a plotting helper returns
Figure(call) == [of |-> call.op, closed |-> FALSE]

\* fig_fn_fcst = Path(self.workdir) / 'forecast_hydrographs.png'
fig_fn_fcst(j) == PathJoin(j.workdir, <<"forecast_hydrographs", ".png">>)

InvokeGraph(w) ==
    /\ ~Active(job[w])
    /\ served < MaxInvocations
    /\ \E request \in GraphRequests, workdir \in FreeDirs :
          job' = [job EXCEPT ![w] =
                    NewJob("graph_forecast_uncertainty", "plot", request, workdir,
                           GraphOutputs)]
    /\ UNCHANGED <<files, served>>

\* request.inputs[name] of a name the request lacks
KeyError == [type |-> "KeyError", origin |-> "request.inputs", msg |-> "missing key"]

\* the inputs the handler subscripts before it calls the plotting helper
InputsRead(j) ==
    IF IsHindcast(j) THEN {"fcst", "fcst_var", "qobs", "qobs_var"}
    ELSE {"fcst", "fcst_var"}

\* lines 61-71: the inputs are read and one plotting helper is called
Plot(w) ==
    LET j == job[w]
        read == [j EXCEPT !.sim_fn = j.inputs["fcst"][1],
                          !.fcst_var = j.inputs["fcst_var"][1]]
        call == IF IsHindcast(j) THEN HindcastCall(j) ELSE ForecastCall(j)
        called == Called(IF IsHindcast(j)
                         THEN [read EXCEPT !.qobs_fn = j.inputs["qobs"][1],
                                           !.qobs_var = j.inputs["qobs_var"][1]]
                         ELSE read,
                         call)
    IN /\ j.pc = "plot"
       /\ \E outcome \in Outcomes :
            job' = [job EXCEPT ![w] =
               IF ~(InputsRead(j) \subseteq DOMAIN j.inputs)
               THEN Raise(j, KeyError)
               ELSE IF outcome = "raises"
               THEN Raise(called, LibraryError(call.op))
               ELSE [called EXCEPT !.fig = Figure(call), !.pc = "savefig"]]
       /\ UNCHANGED <<files, served>>

\* lines 73-74: fig.savefig(fig_fn_fcst)
SaveFig(w) ==
    LET j == job[w]
        called == Called(j, Call("savefig", <<j.fig, fig_fn_fcst(j)>>, <<>>))
    IN /\ j.pc = "savefig"
       /\ \E outcome \in Outcomes :
            IF outcome = "raises"
            THEN /\ job' = [job EXCEPT ![w] = Raise(called, LibraryError("savefig"))]
                 /\ UNCHANGED files
                 /\ UNCHANGED served
            ELSE /\ job' = [job EXCEPT ![w] = [called EXCEPT !.pc = "close"]]
                 /\ files' = files \cup {File(fig_fn_fcst(j), w)}
                 /\ UNCHANGED served

\* the figure is left open
CloseFig_unclosed(w) ==
    /\ job[w].pc = "close"
    /\ job' = [job EXCEPT ![w] =
          [SetOutput(job[w], "graph_forecasts", PathStr(fig_fn_fcst(job[w])))
             EXCEPT !.pc = "done", !.result = Returned]]
    /\ UNCHANGED <<files, served>>

\* lines 75-79: plt.close(fig); the output is set and the response returned
CloseFig(w) ==
    LET j == job[w]
        closed == [Called(j, Call("plt.close", <<j.fig>>, <<>>))
                      EXCEPT !.fig.closed = TRUE]
    IN /\ j.pc = "close"
       /\ job' = [job EXCEPT ![w] =
             [SetOutput(closed, "graph_forecasts", PathStr(fig_fn_fcst(j)))
                EXCEPT !.pc = "done", !.result = Returned]]
       /\ UNCHANGED <<files, served>>

GraphStep(w) ==
    \/ Plot(w)
    \/ SaveFig(w)
    \/ CloseFig(w)

(***************************************************************************)
(* The service: one worker slot, so invocations follow one another.        *)
(***************************************************************************)
\* the handler has returned or raised: the framework answers the caller,
\* removes the job's working directory and frees the slot
Respond(w) ==
    /\ job[w].pc = "done"
    /\ job' = [job EXCEPT ![w] = IdleJob]
    /\ files' = {f \in files : f.dir # job[w].workdir}
    /\ served' = served + 1

\* the worker slots of the service
Workers == {"worker"}

Init ==
    /\ job = [w \in Workers |-> IdleJob]
    /\ files = {}
    /\ served = 0

Next ==
    \E w \in Workers :
        \/ InvokeRegionalisation(w)
        \/ RegionalisationStep(w)
        \/ InvokeGraph(w)
        \/ GraphStep(w)
        \/ Respond(w)

Spec == Init /\ [][Next]_vars

(***************************************************************************)
(* The service with two worker slots: the framework runs each job on a     *)
(* copy of the process with a working directory of its own, and the steps  *)
(* of two handlers interleave freely.  What a handler writes does not      *)
(* depend on the values of its inputs, so the requests are narrowed to     *)
(* those that differ in the path the handler takes.                        *)
(***************************************************************************)
ConcurrentWorkers == {"worker1", "worker2"}

ConcurrentRegionalisationRequests ==
    { rq \in RegionalisationRequests :
        /\ DOMAIN rq = PoppedInputs \ {"nc_spec"}
        /\ Len(rq["ts"]) = 1
        /\ rq["model_name"] = <<"GR4JCN">>
        /\ rq["method"] = <<"SP_IDW">>
        /\ rq["ndonors"] = <<5>>
        /\ rq["min_NSE"] = <<"0.6">>
        /\ rq["properties"] \in {<<InvalidJson>>,
                                 <<JsonText(<< <<"area", "4250.6">> >>)>>} }

ConcurrentGraphRequests ==
    { rq \in GraphRequests :
        rq["fcst_var"] = <<"q_sim">> /\ rq["qobs_var"] = <<"q_obs">> }

\* the framework calls _handler on a slot while the other may be running
InvokeRegionalisationConcurrently(w) ==
    /\ ~Active(job[w])
    /\ served < MaxInvocations
    /\ \E request \in ConcurrentRegionalisationRequests, workdir \in FreeDirs :
          job' = [job EXCEPT ![w] =
                    NewJob("regionalisation", "read_inputs", request, workdir,
                           RegionalisationOutputs)]
    /\ UNCHANGED <<files, served>>

InvokeGraphConcurrently(w) ==
    /\ ~Active(job[w])
    /\ served < MaxInvocations
    /\ \E request \in ConcurrentGraphRequests, workdir \in FreeDirs :
          job' = [job EXCEPT ![w] =
                    NewJob("graph_forecast_uncertainty", "plot", request, workdir,
                           GraphOutputs)]
    /\ UNCHANGED <<files, served>>

InitConcurrent ==
    /\ job = [w \in ConcurrentWorkers |-> IdleJob]
    /\ files = {}
    /\ served = 0

NextConcurrent ==
    \E w \in ConcurrentWorkers :
        \/ InvokeRegionalisationConcurrently(w)
        \/ RegionalisationStep(w)
        \/ InvokeGraphConcurrently(w)
        \/ GraphStep(w)
        \/ Respond(w)

SpecConcurrent == InitConcurrent /\ [][NextConcurrent]_vars

(***************************************************************************)
(* What the properties below speak about.                                  *)
(***************************************************************************)
\* the positions of the calls of op in a trace
Calls(tr, op) == {i \in DOMAIN tr : tr[i].op = op}

\* the positions where response.outputs[name].file is assigned
Assigned(tr, name) ==
    {i \in DOMAIN tr : tr[i].op = "outputs.file" /\ tr[i].args[1] = name}

\* the positions where the value v is written to a file
Written(tr, v) ==
    {i \in DOMAIN tr : tr[i].op = "to_netcdf" /\ tr[i].args[1] = v}

Regionalisations == {w \in DOMAIN job : job[w].proc = "regionalisation"}

Graphs == {w \in DOMAIN job : job[w].proc = "graph_forecast_uncertainty"}

\* the routines of the underlying library that _handler calls
LibraryRoutines ==
    {"read_gauged_params", "read_gauged_properties", "regionalize", "to_netcdf"}

\* the exception that ended the job, if a library routine raised it
LibraryFailure(j) ==
    /\ j.result.kind = "raised"
    /\ IF j.result.exc.type = "ProcessError"
       THEN j.result.exc.cause.origin \in LibraryRoutines
       ELSE j.result.exc.origin \in LibraryRoutines

\* regionalize, or the call of it, has raised in this invocation
RegionalizeRaised(j) == j.exc.type # "None"

\* the file <dir>/<stem><suffix> as the text of its path
PathText(dir, stem, suffix) == dir \o <<"/", stem, suffix>>

Exists(path) == \E f \in files : f.path = path

(***************************************************************************)
(* C1. Every exception a library routine raises in the regionalisation     *)
(* handler (read_gauged_params, read_gauged_properties, regionalize, the   *)
(* to_netcdf writes) is logged and leaves the handler as a ProcessError    *)
(* that carries the formatted traceback.                                   *)
(***************************************************************************)
C1_LibraryErrorsSurfaceAsProcessError ==
    \A w \in Regionalisations :
        LET j == job[w] IN
        LibraryFailure(j) =>
            /\ j.result.exc.type = "ProcessError"
            /\ j.result.exc.msg = format_exc(j.result.exc.cause)
            /\ \E i \in Calls(j.trace, "LOGGER.exception") :
                  j.trace[i].args[1] = j.result.exc.cause

(***************************************************************************)
(* C2. When regionalize raises, the invocation ends with no partial        *)
(* result: no qsim.nc and no ensemble.nc is written to the workdir, no     *)
(* output is assigned, and the handler does not return the response.       *)
(***************************************************************************)
C2_NoPartialResult ==
    \A w \in Regionalisations :
        LET j == job[w] IN
        RegionalizeRaised(j) =>
            /\ Calls(j.trace, "to_netcdf") = {}
            /\ ~Exists(PathText(j.workdir, "qsim", ".nc"))
            /\ ~Exists(PathText(j.workdir, "ensemble", ".nc"))
            /\ \A o \in RegionalisationOutputs :
                  j.outputs[o] = <<>> /\ Assigned(j.trace, o) = {}
            /\ j.result.kind # "returned"
            /\ j.pc = "done" => j.result.exc.type = "ProcessError"

C2_Witness ==
    \E w \in Regionalisations :
        /\ job[w].pc = "done"
        /\ job[w].exc = LibraryError("regionalize")
        /\ Calls(job[w].trace, "regionalize") # {}
        /\ job[w].result.kind = "raised"

(***************************************************************************)
(* C3. No retry: in one invocation read_gauged_params,                     *)
(* read_gauged_properties and regionalize are each called at most once,    *)
(* in that order, and a failure of regionalize is followed by no further   *)
(* call of a library routine.                                              *)
(***************************************************************************)
CallOrder ==
    [read_gauged_params |-> 1, read_gauged_properties |-> 2, regionalize |-> 3]

C3_NoRetry ==
    \A w \in Regionalisations :
        LET tr == job[w].trace
            lib == {i \in DOMAIN tr : tr[i].op \in DOMAIN CallOrder}
        IN /\ \A op \in DOMAIN CallOrder : Cardinality(Calls(tr, op)) <= 1
           /\ \A i, k \in lib : i < k => CallOrder[tr[i].op] < CallOrder[tr[k].op]
           /\ RegionalizeRaised(job[w]) =>
                 \A i \in Calls(tr, "regionalize") : \A k \in DOMAIN tr :
                     k > i => tr[k].op = "LOGGER.exception"

C3_Witness ==
    \E w \in Regionalisations :
        /\ job[w].pc = "done"
        /\ job[w].result.kind = "raised"
        /\ RegionalizeRaised(job[w])
        /\ \A op \in DOMAIN CallOrder : Cardinality(Calls(job[w].trace, op)) = 1

(***************************************************************************)
(* C4. The JSON 'properties' input is decoded and forwarded unchanged:     *)
(* read_gauged_properties gets the key set of the decoded dictionary,      *)
(* regionalize gets its keys and values as the ungauged properties, and    *)
(* the request's method, model_name, ndonors (as size), min_NSE and the    *)
(* list of all 'ts' files.                                                 *)
(***************************************************************************)
C4_ForwardsRequest ==
    \A w \in Regionalisations :
        LET j == job[w]
            tr == j.trace
            decoded == json_loads(j.request["properties"][1])
        IN /\ \A i \in Calls(tr, "read_gauged_properties") :
                 tr[i].args = <<DOMAIN decoded>>
           /\ \A i \in Calls(tr, "regionalize") :
                 /\ tr[i].args[1] = j.request["method"][1]
                 /\ tr[i].args[2] = j.request["model_name"][1]
                 /\ tr[i].args[6] = decoded
                 /\ tr[i].kwargs["size"] = j.request["ndonors"][1]
                 /\ tr[i].kwargs["min_NSE"] = j.request["min_NSE"][1]
                 /\ tr[i].kwargs["ts"] = j.request["ts"]

C4_Witness ==
    \E w \in Regionalisations :
        /\ Calls(job[w].trace, "regionalize") # {}
        /\ Calls(job[w].trace, "read_gauged_properties") # {}
        /\ Len(job[w].request["ts"]) > 1
        /\ Len(job[w].request["properties"][1].members) > 1
        /\ job[w].request["ndonors"][1] # 5

(***************************************************************************)
(* C5. A successful regionalisation produces both outputs: qsim is written *)
(* to <workdir>/qsim.nc and ensemble to <workdir>/ensemble.nc, the         *)
(* hydrograph and ensemble outputs are set to those paths, and an output   *)
(* is assigned only after its file has been written.                       *)
(***************************************************************************)
C5_BothOutputsWritten ==
    \A w \in Regionalisations :
        LET j == job[w]
            tr == j.trace
            qpath == PathText(j.workdir, "qsim", ".nc")
            epath == PathText(j.workdir, "ensemble", ".nc")
        IN /\ j.result.kind = "returned" =>
                 /\ Exists(qpath) /\ Exists(epath)
                 /\ j.outputs["hydrograph"] = qpath
                 /\ j.outputs["ensemble"] = epath
           /\ \A i \in Assigned(tr, "hydrograph") :
                 /\ tr[i].args[2] = qpath /\ Exists(qpath)
                 /\ \E k \in Written(tr, j.qsim) :
                       k < i /\ PathStr(tr[k].args[2]) = qpath
           /\ \A i \in Assigned(tr, "ensemble") :
                 /\ tr[i].args[2] = epath /\ Exists(epath)
                 /\ \E k \in Written(tr, j.ensemble) :
                       k < i /\ PathStr(tr[k].args[2]) = epath
           /\ \A o \in RegionalisationOutputs :
                 j.outputs[o] # <<>> => Assigned(tr, o) # {}

C5_Witness ==
    \E w \in Regionalisations :
        /\ job[w].pc = "done"
        /\ job[w].result.kind = "returned"
        /\ Cardinality(Calls(job[w].trace, "to_netcdf")) = 2

(***************************************************************************)
(* C6. A graph endpoint that succeeds returns a PNG file reference: the    *)
(* 'graph_forecasts' output is <workdir>/forecast_hydrographs.png, a path  *)
(* ending in '.png', set only after the figure was saved to that path; the *)
(* figure is closed after it was saved and before the response returns.    *)
(***************************************************************************)
C6_GraphReturnsPng ==
    \A w \in Graphs :
        LET j == job[w]
            tr == j.trace
            png == PathText(j.workdir, "forecast_hydrographs", ".png")
        IN /\ j.result.kind = "returned" =>
                 /\ j.outputs["graph_forecasts"] = png
                 /\ EndsWith(j.outputs["graph_forecasts"], ".png")
                 /\ Exists(png)
                 /\ j.fig.closed
                 /\ \E s \in Calls(tr, "savefig") : \E c \in Calls(tr, "plt.close") :
                       s < c
           /\ \A i \in Assigned(tr, "graph_forecasts") :
                 /\ tr[i].args[2] = png
                 /\ \E s \in Calls(tr, "savefig") :
                       s < i /\ PathStr(tr[s].args[2]) = png
           /\ \A c \in Calls(tr, "plt.close") : \E s \in Calls(tr, "savefig") : s < c
           /\ j.outputs["graph_forecasts"] # <<>> => Assigned(tr, "graph_forecasts") # {}

C6_Witness ==
    \E w \in Graphs :
        /\ job[w].pc = "done"
        /\ job[w].result.kind = "returned"
        /\ job[w].outputs["graph_forecasts"] # <<>>

(***************************************************************************)
(* C7. The graph handler calls exactly one plotting helper, once:          *)
(* hindcast(fcst, fcst_var, qobs, qobs_var) if and only if the request has *)
(* a 'qobs' input, otherwise forecast(fcst, fcst_var); qobs_var is read    *)
(* only for a hindcast, so its presence alone never selects hindcast.      *)
(***************************************************************************)
C7_OnePlottingHelper ==
    \A w \in Graphs :
        LET j == job[w]
            tr == j.trace
            rq == j.request
            plots == Calls(tr, "hindcast") \cup Calls(tr, "forecast")
        IN /\ Cardinality(plots) = (IF j.pc = "plot" THEN 0 ELSE 1)
           /\ \A i \in plots :
                 IF "qobs" \in DOMAIN rq
                 THEN /\ tr[i].op = "hindcast"
                      /\ tr[i].args = <<rq["fcst"][1], rq["fcst_var"][1],
                                        rq["qobs"][1], rq["qobs_var"][1]>>
                      /\ j.qobs_var = rq["qobs_var"][1]
                 ELSE /\ tr[i].op = "forecast"
                      /\ tr[i].args = <<rq["fcst"][1], rq["fcst_var"][1]>>
                      /\ j.qobs_var = None /\ j.qobs_fn = None

C7_Witness ==
    \E w \in Graphs :
        /\ job[w].pc = "done"
        /\ "qobs" \notin DOMAIN job[w].request
        /\ "qobs_var" \in DOMAIN job[w].request
        /\ Calls(job[w].trace, "forecast") # {}

(***************************************************************************)
(* C8. The handlers are stateless between invocations: whatever            *)
(* invocations came before, every call an invocation makes and every       *)
(* output it assigns is determined by its own request and workdir.         *)
(***************************************************************************)
\* the call of regionalize that a request alone determines
RegionalizeOf(rq) ==
    LET mn == rq["model_name"][1]
        decoded == json_loads(rq["properties"][1])
        specs == IF "nc_spec" \in DOMAIN rq THEN rq["nc_spec"] ELSE <<>>
        rest == [k \in DOMAIN rq \ PoppedInputs |-> rq[k][1]]
    IN Call("regionalize",
            <<rq["method"][1], mn, <<"nash", mn>>, <<"params", mn>>,
              <<"props", DOMAIN decoded>>, decoded>>,
            Update(Update([size |-> rq["ndonors"][1], min_NSE |-> rq["min_NSE"][1],
                           ts |-> rq["ts"]],
                          UpdateFromSpecs(<<>>, specs)),
                   rest))

\* the calls and assignments a request and a workdir allow, by operation
DeterminedBy(call, proc, rq, workdir) ==
    IF proc = "regionalisation"
    THEN CASE call.op = "update_status" ->
                call.args \in {<<"Inputs are read", 1>>, <<"Gauged params are read", 2>>,
                               <<"Gauged properties are read", 3>>,
                               <<"Computed regionalization", 99>>}
           [] call.op = "read_gauged_params" -> call.args = <<rq["model_name"][1]>>
           [] call.op = "read_gauged_properties" ->
                call.args = <<DOMAIN json_loads(rq["properties"][1])>>
           [] call.op = "regionalize" -> call = RegionalizeOf(rq)
           [] call.op = "LOGGER.exception" ->
                call.args \in {<<LibraryErrorWith("regionalize", m)>> :
                                  m \in LibraryMessages}
                               \cup {<<DuplicateKeyword("regionalize")>>}
           [] call.op = "to_netcdf" ->
                \/ call.args = <<<<"qsim", rq["method"][1]>>,
                                 [dir |-> workdir, name |-> <<"qsim", ".nc">>]>>
                \/ call.args = <<<<"ensemble", rq["method"][1]>>,
                                 [dir |-> workdir, name |-> <<"ensemble", ".nc">>]>>
           [] call.op = "outputs.file" ->
                \/ call.args = <<"hydrograph", PathText(workdir, "qsim", ".nc")>>
                \/ call.args = <<"ensemble", PathText(workdir, "ensemble", ".nc")>>
           [] OTHER -> FALSE
    ELSE CASE call.op \in {"hindcast", "forecast"} ->
                call.args = IF "qobs" \in DOMAIN rq
                            THEN <<rq["fcst"][1], rq["fcst_var"][1],
                                   rq["qobs"][1], rq["qobs_var"][1]>>
                            ELSE <<rq["fcst"][1], rq["fcst_var"][1]>>
           [] call.op = "savefig" ->
                call.args[2] = [dir |-> workdir,
                                name |-> <<"forecast_hydrographs", ".png">>]
           [] call.op = "plt.close" -> TRUE
           [] call.op = "outputs.file" ->
                call.args = <<"graph_forecasts",
                              PathText(workdir, "forecast_hydrographs", ".png")>>
           [] OTHER -> FALSE

C8_Stateless ==
    \A w \in DOMAIN job :
        LET j == job[w] IN
        /\ j.pc = "idle" => j = IdleJob
        /\ \A i \in DOMAIN j.trace :
              DeterminedBy(j.trace[i], j.proc, j.request, j.workdir)
        /\ \A o \in DOMAIN j.outputs :
              j.outputs[o] # <<>> =>
                  \E i \in Assigned(j.trace, o) : j.outputs[o] = j.trace[i].args[2]

C8_Witness ==
    /\ served >= 1
    /\ \E w \in Regionalisations :
          /\ job[w].pc = "done"
          /\ job[w].result.kind = "returned"
          /\ "nc_spec" \notin DOMAIN job[w].request

(***************************************************************************)
(* C11. When regionalize fails, the ProcessError the handler raises        *)
(* carries the complete traceback text: its max_length is the length of    *)
(* the message, so the default limit of 300 characters does not apply,     *)
(* every character of string.printable is allowed, and the original        *)
(* exception is chained as its cause.                                      *)
(***************************************************************************)
C11_WholeTraceback ==
    \A w \in Regionalisations :
        LET j == job[w]
            e == j.result.exc
        IN (RegionalizeRaised(j) /\ j.pc = "done") =>
              /\ e.type = "ProcessError"
              /\ e.msg = format_exc(j.exc)
              /\ Len(e.msg) > Len(j.exc.msg)
              /\ e.max_length = Len(e.msg)
              /\ e.allowed_chars = string_printable
              /\ e.cause = j.exc

C11_Witness ==
    \E w \in Regionalisations :
        /\ job[w].pc = "done"
        /\ RegionalizeRaised(job[w])
        /\ job[w].result.exc.type = "ProcessError"
        /\ Len(job[w].result.exc.msg) > DefaultMaxLength

(***************************************************************************)
(* C12. The keyword arguments forwarded to regionalize have a fixed        *)
(* precedence: the JSON objects of the nc_spec occurrences are merged in   *)
(* order, a later one overriding an earlier one on the same key; then each *)
(* input left after ts, model_name, method, ndonors, min_NSE, properties   *)
(* and nc_spec were removed is added under its own name with the data of   *)
(* its first occurrence, overriding an nc_spec key of that name; none of   *)
(* the seven removed names is forwarded from the request inputs.           *)
(***************************************************************************)
\* the nc_spec occurrences of a request
SpecsOf(rq) == IF "nc_spec" \in DOMAIN rq THEN rq["nc_spec"] ELSE <<>>

\* the keys the nc_spec occurrences of a request hold
SpecKeys(rq) ==
    UNION {DOMAIN json_loads(SpecsOf(rq)[i]) : i \in DOMAIN SpecsOf(rq)}

\* the value of key k in the last nc_spec occurrence that holds it
LastSpecValue(rq, k) ==
    LET holds == {i \in DOMAIN SpecsOf(rq) : k \in DOMAIN json_loads(SpecsOf(rq)[i])}
        i == CHOOSE x \in holds : \A y \in holds : y <= x
    IN json_loads(SpecsOf(rq)[i])[k]

C12_KwdsPrecedence ==
    \A w \in Regionalisations :
        LET j == job[w]
            rq == j.request
            left == DOMAIN rq \ {"ts", "model_name", "method", "ndonors", "min_NSE",
                                 "properties", "nc_spec"}
        IN (j.pc # "read_inputs" /\ rq["properties"][1].ok) =>
              /\ DOMAIN j.kwds = SpecKeys(rq) \cup left
              /\ \A k \in DOMAIN j.kwds :
                    j.kwds[k] = IF k \in left THEN rq[k][1] ELSE LastSpecValue(rq, k)
              /\ \A k \in DOMAIN rq \ left : k \in DOMAIN j.kwds => k \in SpecKeys(rq)
              /\ \A i \in Calls(j.trace, "regionalize") :
                    /\ DOMAIN j.trace[i].kwargs =
                          DOMAIN j.kwds \cup {"size", "min_NSE", "ts"}
                    /\ \A k \in DOMAIN j.kwds : j.trace[i].kwargs[k] = j.kwds[k]

C12_Witness ==
    \E w \in Regionalisations :
        LET rq == job[w].request IN
        /\ Calls(job[w].trace, "regionalize") # {}
        /\ Len(SpecsOf(rq)) = 2
        /\ "tas" \in DOMAIN json_loads(SpecsOf(rq)[1])
        /\ "tas" \in DOMAIN json_loads(SpecsOf(rq)[2])
        /\ json_loads(SpecsOf(rq)[1])["tas"] # json_loads(SpecsOf(rq)[2])["tas"]
        /\ "latitude" \in SpecKeys(rq)
        /\ "latitude" \in DOMAIN rq
        /\ Len(rq["latitude"]) = 2

(***************************************************************************)
(* C13. The status reports of a regionalisation are strictly increasing    *)
(* and follow the steps: 1 once the inputs are read and before             *)
(* read_gauged_params, 2 after read_gauged_params returned, 3 after        *)
(* read_gauged_properties returned and before regionalize, 99 only after   *)
(* regionalize returned; when regionalize raises, 99 is never reported and *)
(* 3 is the last status.                                                   *)
(***************************************************************************)
\* the positions of the status reports in a trace
Statuses(tr) == Calls(tr, "update_status")

\* the event at position i of the trace is the status report of percent p
IsStatus(tr, i, p) ==
    i \in DOMAIN tr /\ tr[i].op = "update_status" /\ tr[i].args[2] = p

\* the event at position i of the trace is a call of op
IsCall(tr, i, op) == i \in DOMAIN tr /\ tr[i].op = op

C13_StatusFollowsSteps ==
    \A w \in Regionalisations :
        LET j == job[w]
            tr == j.trace
        IN /\ \A s \in Statuses(tr) : tr[s].args[2] \in {1, 2, 3, 99}
           /\ \A s, t \in Statuses(tr) : s < t => tr[s].args[2] < tr[t].args[2]
           /\ \A s \in Statuses(tr) :
                 /\ tr[s].args[2] = 1 =>
                       s = 1 /\ j.ts = j.request["ts"] /\ j.pc # "read_inputs"
                 /\ tr[s].args[2] = 2 => IsCall(tr, s - 1, "read_gauged_params")
                 /\ tr[s].args[2] = 3 => IsCall(tr, s - 1, "read_gauged_properties")
                 /\ tr[s].args[2] = 99 =>
                       IsCall(tr, s - 1, "regionalize") /\ ~RegionalizeRaised(j)
           /\ \A i \in Calls(tr, "read_gauged_params") : IsStatus(tr, i - 1, 1)
           /\ \A i \in Calls(tr, "read_gauged_properties") : IsStatus(tr, i - 1, 2)
           /\ \A i \in Calls(tr, "regionalize") : IsStatus(tr, i - 1, 3)
           /\ j.pc = "write_qsim" => IsStatus(tr, Len(tr), 99)
           /\ RegionalizeRaised(j) =>
                 /\ \A s \in Statuses(tr) : tr[s].args[2] # 99
                 /\ \E s \in Statuses(tr) :
                       /\ tr[s].args[2] = 3
                       /\ \A t \in Statuses(tr) : t <= s

C13_Witness ==
    \E w \in Regionalisations :
        /\ job[w].pc = "done"
        /\ RegionalizeRaised(job[w])
        /\ Calls(job[w].trace, "regionalize") # {}
        /\ Cardinality(Statuses(job[w].trace)) = 3

(***************************************************************************)
(* C14. With two invocations running at once in working directories of     *)
(* their own, a handler writes only qsim.nc, ensemble.nc and               *)
(* forecast_hydrographs.png inside its own working directory: in every     *)
(* interleaving no file is written by both invocations, and the output     *)
(* paths of a response name files that the same invocation wrote.          *)
(***************************************************************************)
\* the names of the files a handler writes
FixedNames ==
    { <<"qsim", ".nc">>, <<"ensemble", ".nc">>, <<"forecast_hydrographs", ".png">> }

\* the slots whose handler has returned and whose response is not yet sent
Returning == {w \in DOMAIN job : job[w].pc = "done" /\ job[w].result = Returned}

C14_OwnFilesOnly ==
    /\ \A v, w \in DOMAIN job :
          (v # w /\ Active(job[v]) /\ Active(job[w])) =>
              job[v].workdir # job[w].workdir
    /\ \A f \in files :
          /\ Active(job[f.by])
          /\ f.dir = job[f.by].workdir
          /\ \E name \in FixedNames : f.path = f.dir \o <<"/">> \o name
    /\ \A f, g \in files : f.path = g.path => f.by = g.by
    /\ \A w \in Returning :
          \A o \in DOMAIN job[w].outputs :
              /\ job[w].outputs[o] # <<>>
              /\ \E f \in files : f.path = job[w].outputs[o] /\ f.by = w
              /\ \A f \in files : f.path = job[w].outputs[o] => f.by = w

C14_Witness ==
    \E v, w \in Returning :
        /\ v # w
        /\ job[v].proc = "regionalisation"
        /\ job[w].proc = "regionalisation"
        /\ Cardinality({f \in files : f.by = v}) = 2
        /\ Cardinality({f \in files : f.by = w}) = 2

====
